---- MODULE Spec2Model ----
(***************************************************************************)
(* Pinger: a stop-and-wait ICMP echo client.                               *)
(*                                                                         *)
(* Two variants of the program are modelled, selected by `variant`:        *)
(*   "dual"  the IPv4/IPv6 variant  (src/unnamed/part_000)                 *)
(*   "v4"    the IPv4-only variant  (src/main.go)                          *)
(*                                                                         *)
(* Three concurrent parties act on the state: the control loop (pingLoop), *)
(* the receiver goroutine (recvEchoReply) and the runtime timer.  The      *)
(* timer is a time.Timer as the program was written for it: its channel    *)
(* holds one pending expiry, and Stop and Reset do not drain it.           *)
(***************************************************************************)
EXTENDS Integers, Sequences, FiniteSets

VARIABLES
    variant,      \* which program runs: "dual" or "v4"
    p,            \* the PingProc
    pc,           \* position of pingLoop
    res,          \* pingLoop's local `res`, the result taken from the channel
    timerArmed,   \* the timer is running and has not fired
    timerC,       \* number of expiries pending in timer.C (capacity 1)
    rpc,          \* position of the receiver goroutine
    rres,         \* the result the receiver is about to send on the channel
    now,          \* the wall clock, in nanoseconds
    wire,         \* the echo request last written to the connection
    out,          \* the line last printed on standard output
    sends,        \* history: number of sendEcho calls so far
    outstanding,  \* history: requests transmitted since the last outcome line
    nprint,       \* history: outcome lines printed since the last sendEcho call
    slept,        \* history: time.Sleep(p.interval) ran since the last sendEcho call
    cause,        \* history: the select branch taken last ("none", "timer", "recv")
    seq0,         \* history: the value newPingProc gave seqnum
    ret,          \* what pingLoop returned to main ("none" while it runs)
    status,       \* the process: "running", then "exit0" or "exit1"
    codec         \* the timestamp codec applied to one input, stage by stage

vars == <<variant, p, pc, res, timerArmed, timerC, rpc, rres, now, wire, out,
          sends, outstanding, nprint, slept, cause, seq0, ret, status, codec>>

(***************************************************************************)
(* Bounds of the model.                                                    *)
(***************************************************************************)
MaxSends == 3        \* sendEcho calls explored
MaxNow == 1          \* last clock value explored
ByteBits == 2        \* bits per payload byte (8 in the program)
NumBytes == 3        \* payload bytes (8 in the program)
NanosPerSec == 4     \* nanoseconds per second (1000000000 in the program)
NanosPerMilli == 2   \* nanoseconds per millisecond (1000000 in the library)

(***************************************************************************)
(* Program constants.                                                      *)
(***************************************************************************)
SeqSpace == 65536    \* 1 << 16: range of rand.Intn and of the 16-bit wire fields
RttLimit == 2000     \* p.rttLimit, in milliseconds
IntervalDual == 1000 \* p.interval of the dual variant, in milliseconds
IntervalV4 == 1300   \* p.interval of the IPv4-only variant, in milliseconds
DefaultTTL == 100    \* default of the -t / -ttl flag

Variants == {"dual", "v4"}
SessionId == 5
ForeignId == SessionId + 1
InitSeqs == {10, SeqSpace - 1}
Ttls == {64}

(***************************************************************************)
(* Arithmetic of the machine.                                              *)
(***************************************************************************)
RECURSIVE Pow2(_)
Pow2(n) == IF n = 0 THEN 1 ELSE 2 * Pow2(n - 1)

Word == Pow2(ByteBits * NumBytes)
MinInt64 == -(Word \div 2)
MaxInt64 == (Word \div 2) - 1

\* a value reduced to the signed machine word (two's complement wrap)
ToInt64(x) ==
    LET m == x % Word IN IF m >= Word \div 2 THEN m - Word ELSE m

\* Go's integer division and remainder: truncated toward zero
TruncDiv(a, b) == IF a >= 0 THEN a \div b ELSE -((-a) \div b)
TruncRem(a, b) == a - b * TruncDiv(a, b)

\* uint16(v), as icmp.Echo.Marshal writes ID and Seq
Uint16(v) == v % SeqSpace

(***************************************************************************)
(* time.Time, reduced to its wall clock reading.                           *)
(***************************************************************************)
\* time.Unix(sec, nsec)
Unix(sec, nsec) ==
    LET n  == TruncDiv(nsec, NanosPerSec)
        s1 == IF nsec < 0 \/ nsec >= NanosPerSec THEN sec + n ELSE sec
        n1 == IF nsec < 0 \/ nsec >= NanosPerSec THEN nsec - n * NanosPerSec ELSE nsec
    IN  IF n1 < 0 THEN [sec |-> s1 - 1, nsec |-> n1 + NanosPerSec]
                  ELSE [sec |-> s1, nsec |-> n1]

\* t.UnixNano()
UnixNano(t) == ToInt64(t.sec * NanosPerSec + t.nsec)

\* time.Now() when the clock reads n nanoseconds
TimeAt(n) == Unix(0, n)

\* t.Sub(u): the difference, saturated to the range of a Duration
Sub(t, u) ==
    LET d == (t.sec - u.sec) * NanosPerSec + (t.nsec - u.nsec)
    IN  IF d > MaxInt64 THEN MaxInt64 ELSE IF d < MinInt64 THEN MinInt64 ELSE d

\* time.Since(t) when the clock reads n nanoseconds
Since(t, n) == Sub(TimeAt(n), t)

\* d.Milliseconds()
Milliseconds(d) == TruncDiv(d, NanosPerMilli)

(***************************************************************************)
(* Wire codec of the timestamp payload.                                    *)
(***************************************************************************)
\* timeToBytes filling the buffer from its last byte
timeToBytes_LittleEndian(t) ==
    LET nsecs == UnixNano(t)
    IN  [i \in 1..NumBytes |->
            (nsecs \div Pow2((i - 1) * ByteBits)) % Pow2(ByteBits)]

timeToBytes(t) ==
    LET nsecs == UnixNano(t)
    IN  [i \in 1..NumBytes |->
            (nsecs \div Pow2((NumBytes - i) * ByteBits)) % Pow2(ByteBits)]

RECURSIVE SumBytes(_, _)
SumBytes(bytes, i) ==
    IF i > NumBytes THEN 0
    ELSE bytes[i] * Pow2((NumBytes - i) * ByteBits) + SumBytes(bytes, i + 1)

bytesToTime(bytes) ==
    LET nsecs == ToInt64(SumBytes(bytes, 1))
    IN  Unix(TruncDiv(nsecs, NanosPerSec), TruncRem(nsecs, NanosPerSec))

(***************************************************************************)
(* Messages, results and printed lines.                                    *)
(***************************************************************************)
NoData == <<>>
NoMsg == [type |-> "none", id |-> 0, seq |-> 0, data |-> NoData]
NoRes == [msg |-> NoMsg, ttl |-> 0, err |-> "none"]
NoWire == [id |-> 0, seq |-> 0, data |-> NoData]
NoLine == [kind |-> "none", seq |-> 0, ttl |-> 0, time |-> 0]
NoTime == [sec |-> 0, nsec |-> 0]
NoCodec == [stage |-> "idle", t |-> NoTime, bytes |-> NoData, back |-> NoTime]

\* the timestamps a datagram's payload may encode: past, present and future
PayloadTimes == 0..(MaxNow + 1)

\* the echo replies the connection may deliver: from the destination or from
\* another pinger's peer (ForeignId), for the current or the previous sequence
EchoReplies ==
    {[type |-> "EchoReply", id |-> i, seq |-> s, data |-> timeToBytes(TimeAt(t))] :
        i \in {Uint16(p.id), ForeignId},
        s \in {Uint16(p.seqnum), Uint16(p.seqnum - 1)},
        t \in PayloadTimes}

TimeExceededMsg == [type |-> "TimeExceeded", id |-> 0, seq |-> 0, data |-> NoData]
OtherMsg == [type |-> "Other", id |-> 0, seq |-> 0, data |-> NoData]

\* every datagram that parses as an ICMP message
Datagrams == EchoReplies \cup {TimeExceededMsg, OtherMsg}

(***************************************************************************)
(* The session.                                                            *)
(***************************************************************************)
newPingProc(v, s, v6) ==
    [id       |-> SessionId,
     seqnum   |-> s,
     dst      |-> "dst",
     isIPv6   |-> v6,
     ttl      |-> DefaultTTL,
     rttLimit |-> RttLimit,
     interval |-> IF v = "dual" THEN IntervalDual ELSE IntervalV4]

\* the program's state when main calls pingLoop
ProgInit ==
    /\ variant \in Variants
    /\ \E s \in InitSeqs, v6 \in BOOLEAN :
          /\ (variant = "v4" => ~v6)
          /\ p = newPingProc(variant, s, v6)
          /\ seq0 = s
    /\ pc = "start"
    /\ res = NoRes
    /\ timerArmed = FALSE
    /\ timerC = 0
    /\ rpc = "unstarted"
    /\ rres = NoRes
    /\ now = 0
    /\ wire = NoWire
    /\ out = NoLine
    /\ sends = 0
    /\ outstanding = 0
    /\ nprint = 0
    /\ slept = FALSE
    /\ cause = "none"
    /\ ret = "none"
    /\ status = "running"

Init == ProgInit /\ codec = NoCodec

\* sendEcho without the increment of seqnum
sendEcho_SameSeq(ok) ==
    /\ sends < MaxSends
    /\ p' = p
    /\ sends' = sends + 1
    /\ wire' = IF ok THEN [id   |-> Uint16(p.id),
                           seq  |-> Uint16(p.seqnum),
                           data |-> timeToBytes(TimeAt(now))]
                     ELSE wire
    /\ outstanding' = IF ok THEN outstanding + 1 ELSE outstanding
    /\ nprint' = 0
    /\ slept' = FALSE

(***************************************************************************)
(* sendEcho: ok tells whether cn.WriteTo succeeded.  The dual variant      *)
(* increments seqnum before it builds the message; the IPv4-only variant   *)
(* sends the seqnum it finds.                                              *)
(***************************************************************************)
sendEcho(ok) ==
    LET q == IF variant = "dual" THEN [p EXCEPT !.seqnum = @ + 1] ELSE p
    IN  /\ sends < MaxSends
        /\ p' = q
        /\ sends' = sends + 1
        /\ wire' = IF ok THEN [id   |-> Uint16(q.id),
                               seq  |-> Uint16(q.seqnum),
                               data |-> timeToBytes(TimeAt(now))]
                         ELSE wire
        /\ outstanding' = IF ok THEN outstanding + 1 ELSE outstanding
        /\ nprint' = 0
        /\ slept' = FALSE

(***************************************************************************)
(* The handlers of a received result: each yields the line it prints.      *)
(***************************************************************************)
\* the correlation test of handleEchoReply and handleRecv
Matches(msg) == msg.id = p.id /\ msg.seq = p.seqnum

\* rtt as both handlers compute it: zero unless the reply matches
Rtt(msg) == IF Matches(msg) THEN Since(bytesToTime(msg.data), now) ELSE 0

handleEchoReply(msg, ttl) ==
    [kind |-> "success", seq |-> p.seqnum, ttl |-> ttl,
     time |-> Milliseconds(Rtt(msg))]

handleTimeExceeded ==
    [kind |-> "ttlExceeded", seq |-> p.seqnum, ttl |-> 0, time |-> 0]

handleMsg(msg, ttl) ==
    CASE msg.type = "EchoReply"    -> handleEchoReply(msg, ttl)
      [] msg.type = "TimeExceeded" -> handleTimeExceeded
      [] OTHER -> [kind |-> "unexpectedType", seq |-> 0, ttl |-> 0, time |-> 0]

\* the receive branch of the dual variant's select
handleResult(r) ==
    IF r.err = "nil" THEN handleMsg(r.msg, r.ttl)
    ELSE [kind |-> "recvError", seq |-> 0, ttl |-> 0, time |-> 0]

\* handleRecv of the IPv4-only variant: nil bytes do not parse
handleRecv(r) ==
    IF r.msg.type = "none"
    THEN [kind |-> "handleError", seq |-> 0, ttl |-> 0, time |-> 0]
    ELSE [kind |-> "success", seq |-> 0, ttl |-> 0, time |-> Rtt(r.msg)]

(***************************************************************************)
(* pingLoop.                                                               *)
(***************************************************************************)
\* make the channel, start the receiver, send the first request (its error
\* is dropped), create the timer
Start ==
    /\ pc = "start"
    /\ rpc' = "read"
    /\ \E ok \in BOOLEAN : sendEcho(ok)
    /\ timerArmed' = TRUE
    /\ timerC' = 0
    /\ pc' = "select"
    /\ UNCHANGED <<variant, res, rres, now, out, cause, seq0, ret, status, codec>>

\* the timeout branch falling into the stop and sleep of the receive branch
SelectTimer_ThenSleep ==
    /\ pc = "select"
    /\ timerC = 1
    /\ timerC' = 0
    /\ p' = IF variant = "v4" THEN [p EXCEPT !.seqnum = @ + 1] ELSE p
    /\ out' = [kind |-> "unreachable", seq |-> 0, ttl |-> 0, time |-> 0]
    /\ nprint' = nprint + 1
    /\ outstanding' = 0
    /\ cause' = "timer"
    /\ pc' = "stop"
    /\ UNCHANGED <<variant, res, timerArmed, rpc, rres, now, wire, sends, slept, seq0, ret, status, codec>>

\* case <-timer.C
SelectTimer ==
    /\ pc = "select"
    /\ timerC = 1
    /\ timerC' = 0
    /\ p' = IF variant = "v4" THEN [p EXCEPT !.seqnum = @ + 1] ELSE p
    /\ out' = [kind |-> "unreachable", seq |-> 0, ttl |-> 0, time |-> 0]
    /\ nprint' = nprint + 1
    /\ outstanding' = 0
    /\ cause' = "timer"
    /\ pc' = "reset"
    /\ UNCHANGED <<variant, res, timerArmed, rpc, rres, now, wire, sends, slept, seq0, ret, status, codec>>

\* the receive branch with a handler that returns without printing
SelectRecv_Silent ==
    /\ pc = "select"
    /\ rpc \in {"send", "sendret"}
    /\ res' = rres
    /\ rres' = NoRes
    /\ rpc' = IF rpc = "sendret" THEN "exited" ELSE "read"
    /\ cause' = "recv"
    /\ pc' = "stop"
    /\ UNCHANGED <<variant, p, timerArmed, timerC, now, wire, sends, slept, seq0,
                   out, nprint, outstanding, ret, status, codec>>

\* the receive branch leaving the loop on a receive error
SelectRecv_ErrBreaks ==
    /\ pc = "select"
    /\ rpc \in {"send", "sendret"}
    /\ res' = rres
    /\ rres' = NoRes
    /\ rpc' = IF rpc = "sendret" THEN "exited" ELSE "read"
    /\ out' = IF variant = "dual" THEN handleResult(rres) ELSE handleRecv(rres)
    /\ nprint' = nprint + 1
    /\ outstanding' = 0
    /\ cause' = "recv"
    /\ pc' = IF rres.err = "nil" THEN "stop" ELSE "done"
    /\ UNCHANGED <<variant, p, timerArmed, timerC, now, wire, sends, slept, seq0, ret, status, codec>>

\* case res := <-ping, and the handler called on res
SelectRecv ==
    /\ pc = "select"
    /\ rpc \in {"send", "sendret"}
    /\ res' = rres
    /\ rres' = NoRes
    /\ rpc' = IF rpc = "sendret" THEN "exited" ELSE "read"
    /\ out' = IF variant = "dual" THEN handleResult(rres) ELSE handleRecv(rres)
    /\ nprint' = nprint + 1
    /\ outstanding' = 0
    /\ cause' = "recv"
    /\ pc' = "stop"
    /\ UNCHANGED <<variant, p, timerArmed, timerC, now, wire, sends, slept, seq0, ret, status, codec>>

\* timer.Stop() of the receive branch: a pending expiry stays in timer.C
TimerStop ==
    /\ pc = "stop"
    /\ timerArmed' = FALSE
    /\ pc' = "sleep"
    /\ UNCHANGED <<variant, p, res, timerC, rpc, rres, now, wire, out, sends,
                   outstanding, nprint, slept, cause, seq0, ret, status, codec>>

\* time.Sleep(p.interval), the end of the receive branch
Sleep ==
    /\ pc = "sleep"
    /\ slept' = TRUE
    /\ res' = NoRes
    /\ pc' = "reset"
    /\ UNCHANGED <<variant, p, timerArmed, timerC, rpc, rres, now, wire, out, sends,
                   outstanding, nprint, cause, seq0, ret, status, codec>>

\* the loop going on to send without re-arming the timer
TimerReset_NoArm ==
    /\ pc = "reset"
    /\ pc' = "send"
    /\ UNCHANGED <<variant, p, res, timerArmed, timerC, rpc, rres, now, wire, out,
                   sends, outstanding, nprint, slept, cause, seq0, ret, status, codec>>

\* timer.Reset(p.rttLimit)
TimerReset ==
    /\ pc = "reset"
    /\ timerArmed' = TRUE
    /\ pc' = "send"
    /\ UNCHANGED <<variant, p, res, timerC, rpc, rres, now, wire, out, sends,
                   outstanding, nprint, slept, cause, seq0, ret, status, codec>>

\* the sendEcho of the loop: a failure breaks out of the loop, the timer is
\* stopped and pingLoop returns nil
Send ==
    /\ pc = "send"
    /\ \E ok \in BOOLEAN :
          /\ sendEcho(ok)
          /\ pc' = IF ok THEN "select" ELSE "done"
          /\ timerArmed' = IF ok THEN timerArmed ELSE FALSE
          /\ out' = IF ~ok /\ variant = "dual"
                    THEN [kind |-> "sendError", seq |-> 0, ttl |-> 0, time |-> 0]
                    ELSE out
          /\ ret' = IF ok THEN ret ELSE "nil"
    /\ UNCHANGED <<variant, res, timerC, rpc, rres, now, cause, seq0, status, codec>>

\* main after pingLoop has returned: a non-nil error is printed and the
\* process exits with status 1, otherwise main returns and the status is 0;
\* either way the process, its receiver and its timer are gone
Exit ==
    /\ pc = "done"
    /\ pc' = "halt"
    /\ status' = IF ret # "nil" THEN "exit1" ELSE "exit0"
    /\ UNCHANGED <<variant, p, res, timerArmed, timerC, rpc, rres, now, wire, out,
                   sends, outstanding, nprint, slept, cause, seq0, ret, codec>>

(***************************************************************************)
(* The runtime timer: on expiry it puts one value into timer.C, unless one *)
(* is already pending.                                                     *)
(***************************************************************************)
TimerFire ==
    /\ pc # "halt"
    /\ timerArmed
    /\ timerArmed' = FALSE
    /\ timerC' = 1
    /\ UNCHANGED <<variant, p, pc, res, rpc, rres, now, wire, out, sends,
                   outstanding, nprint, slept, cause, seq0, ret, status, codec>>

(***************************************************************************)
(* recvEchoReply: one iteration up to its send on the channel.  "sendret"  *)
(* is a send followed by return, "send" a send followed by the next read.  *)
(***************************************************************************)
ErrResult(e) == [msg |-> NoMsg, ttl |-> IF variant = "dual" THEN -1 ELSE 0, err |-> e]

\* ReadFrom or ParseMessage fails
RecvFail ==
    /\ pc # "halt"
    /\ rpc = "read"
    /\ \E e \in {"read", "parse"} : rres' = ErrResult(e)
    /\ rpc' = "sendret"
    /\ UNCHANGED <<variant, p, pc, res, timerArmed, timerC, now, wire, out, sends,
                   outstanding, nprint, slept, cause, seq0, ret, status, codec>>

\* a receiver that counts the datagrams it reads in the shared seqnum field
RecvRead_BumpsSeq ==
    /\ pc # "halt"
    /\ rpc = "read"
    /\ \E m \in Datagrams, t \in Ttls :
          rres' = IF variant = "dual" THEN [msg |-> m, ttl |-> t, err |-> "nil"]
                  ELSE IF m.type = "EchoReply" THEN [msg |-> m, ttl |-> 0, err |-> "nil"]
                  ELSE ErrResult("type")
    /\ rpc' = "send"
    /\ p' = [p EXCEPT !.seqnum = @ + 1]
    /\ UNCHANGED <<variant, pc, res, timerArmed, timerC, now, wire, out, sends,
                   outstanding, nprint, slept, cause, seq0, ret, status, codec>>

\* a receiver that does not wait for its result to be taken: it reads the next
\* datagram and the result it held is gone
RecvRead_Overwrites ==
    /\ pc # "halt"
    /\ rpc \in {"read", "send"}
    /\ \E m \in Datagrams, t \in Ttls :
          rres' = IF variant = "dual" THEN [msg |-> m, ttl |-> t, err |-> "nil"]
                  ELSE IF m.type = "EchoReply" THEN [msg |-> m, ttl |-> 0, err |-> "nil"]
                  ELSE ErrResult("type")
    /\ rpc' = "send"
    /\ UNCHANGED <<variant, p, pc, res, timerArmed, timerC, now, wire, out, sends,
                   outstanding, nprint, slept, cause, seq0, ret, status, codec>>

\* a datagram is read and parsed
RecvRead ==
    /\ pc # "halt"
    /\ rpc = "read"
    /\ \E m \in Datagrams, t \in Ttls :
          rres' = IF variant = "dual" THEN [msg |-> m, ttl |-> t, err |-> "nil"]
                  ELSE IF m.type = "EchoReply" THEN [msg |-> m, ttl |-> 0, err |-> "nil"]
                  ELSE ErrResult("type")
    /\ rpc' = "send"
    /\ UNCHANGED <<variant, p, pc, res, timerArmed, timerC, now, wire, out, sends,
                   outstanding, nprint, slept, cause, seq0, ret, status, codec>>

\* the wall clock advances
Tick ==
    /\ now < MaxNow
    /\ now' = now + 1
    /\ UNCHANGED <<variant, p, pc, res, timerArmed, timerC, rpc, rres, wire, out,
                   sends, outstanding, nprint, slept, cause, seq0, ret, status, codec>>

Next ==
    \/ Start
    \/ SelectTimer
    \/ SelectRecv
    \/ TimerStop
    \/ Sleep
    \/ TimerReset
    \/ Send
    \/ Exit
    \/ TimerFire
    \/ RecvFail
    \/ RecvRead
    \/ Tick

Spec == Init /\ [][Next]_vars

(***************************************************************************)
(* The codec on its own: timeToBytes and then bytesToTime, applied to      *)
(* every time whose nanosecond count fits the machine word.                *)
(***************************************************************************)
CodecInputs == {Unix(0, n) : n \in MinInt64..MaxInt64}

CodecInit ==
    /\ ProgInit
    /\ variant = "dual" /\ ~p.isIPv6 /\ seq0 = SeqSpace - 1
    /\ \E t \in CodecInputs :
          codec = [stage |-> "input", t |-> t, bytes |-> NoData, back |-> NoTime]

CodecEncode ==
    /\ codec.stage = "input"
    /\ codec' = [codec EXCEPT !.stage = "encoded", !.bytes = timeToBytes(codec.t)]
    /\ UNCHANGED <<variant, p, pc, res, timerArmed, timerC, rpc, rres, now, wire, out,
                   sends, outstanding, nprint, slept, cause, seq0, ret, status>>

CodecDecode ==
    /\ codec.stage = "encoded"
    /\ codec' = [codec EXCEPT !.stage = "decoded", !.back = bytesToTime(codec.bytes)]
    /\ UNCHANGED <<variant, p, pc, res, timerArmed, timerC, rpc, rres, now, wire, out,
                   sends, outstanding, nprint, slept, cause, seq0, ret, status>>

CodecNext == CodecEncode \/ CodecDecode

CodecSpec == CodecInit /\ [][CodecNext]_vars

\* the scheduler runs the control loop whenever it can take a step, and the
\* runtime fires an armed timer
ControlStep ==
    Start \/ SelectTimer \/ SelectRecv \/ TimerStop \/ Sleep \/ TimerReset \/ Send
    \/ Exit

\* the dual variant alone, for the properties that are about it; the IP version
\* only selects the constants of the message types, so IPv4 stands for both
DualInit == Init /\ variant = "dual" /\ ~p.isIPv6

FairSpec ==
    DualInit /\ [][Next]_vars /\ WF_vars(ControlStep) /\ WF_vars(TimerFire)

TypeOK ==
    /\ variant \in Variants
    /\ p.id = SessionId
    /\ p.seqnum \in Int
    /\ pc \in {"start", "select", "stop", "sleep", "reset", "send", "done", "halt"}
    /\ ret \in {"none", "nil"}
    /\ status \in {"running", "exit0", "exit1"}
    /\ codec = NoCodec
    /\ timerArmed \in BOOLEAN
    /\ timerC \in 0..1
    /\ rpc \in {"unstarted", "read", "send", "sendret", "exited"}
    /\ now \in 0..MaxNow
    /\ sends \in 0..MaxSends
    /\ outstanding \in Nat
    /\ nprint \in Nat
    /\ slept \in BOOLEAN
    /\ cause \in {"none", "timer", "recv"}

(***************************************************************************)
(* Vocabulary of the properties.                                           *)
(***************************************************************************)
\* r is an echo reply handed over without error
IsEchoReply(r) == r.err = "nil" /\ r.msg.type = "EchoReply"

\* this step hands the receiver's result to the control loop
Delivered == pc = "select" /\ rpc \in {"send", "sendret"} /\ rpc' \notin {"send", "sendret"}

\* this step is a call of sendEcho
SendsEcho == sends' = sends + 1

(***************************************************************************)
(* C1.  An echo reply whose identifier or sequence differs from the        *)
(* session's current id/seqnum is never reported as a success: no          *)
(* "64 bytes from" line is printed for it (either variant).                *)
(* Stated as the claim has it; the program prints the line for every echo  *)
(* reply and only zeroes the time of a mismatched one.                     *)
(***************************************************************************)
C1_MismatchNeverSuccess ==
    (pc = "stop" /\ IsEchoReply(res) /\ ~Matches(res.msg)) => out.kind # "success"

(***************************************************************************)
(* C2.  Dual variant: the delivery of an echo reply that does not match    *)
(* the session's id/seqnum is no transition: the loop stays at the select  *)
(* for the same probe, the timer is neither stopped nor reset, no sleep is *)
(* taken and no request is sent.                                           *)
(* Stated as the claim has it; the program ends the cycle on every         *)
(* delivery.                                                               *)
(***************************************************************************)
C2_MismatchNoTransition ==
    [][(variant = "dual" /\ Delivered /\ IsEchoReply(rres) /\ ~Matches(rres.msg))
         => (pc' = "select" /\ timerArmed' = timerArmed /\ timerC' = timerC
             /\ slept' = slept /\ sends' = sends /\ p' = p)]_vars

(***************************************************************************)
(* C3.  Dual variant: every delivered echo reply whose id and seq equal    *)
(* the session's yields a success line whose reported time is >= 0, for    *)
(* every payload.                                                          *)
(* Stated as the claim has it; a payload that decodes to a time after the  *)
(* clock's reading gives a negative time.                                  *)
(***************************************************************************)
C3_MatchSuccessNonNegative ==
    (variant = "dual" /\ pc = "stop" /\ IsEchoReply(res) /\ Matches(res.msg))
        => (out.kind = "success" /\ out.time >= 0)

(***************************************************************************)
(* C5.  Dual variant: seqnum is a 16-bit counter, always within 0..65535   *)
(* and equal to (initial value + number of requests sent) mod 2^16.        *)
(* Stated as the claim has it; seqnum is a Go int, and 65535 + 1 is 65536. *)
(***************************************************************************)
C5_Seq16Bit ==
    variant = "dual" =>
        /\ p.seqnum \in 0..(SeqSpace - 1)
        /\ p.seqnum = (seq0 + sends) % SeqSpace

(***************************************************************************)
(* C4.  Stop-and-wait: at most one echo request is transmitted between two *)
(* consecutive cycle outcomes, and whenever the loop is on its way to the  *)
(* next sendEcho the request before it has had its outcome; in every       *)
(* interleaving of receiver, timer and loop, in either variant.            *)
(***************************************************************************)
C4_StopAndWait ==
    /\ outstanding \in {0, 1}
    /\ pc \in {"stop", "sleep", "reset", "send"} => (outstanding = 0 /\ nprint = 1)

\* a second request is on the wire after the first one's outcome
C4_Witness ==
    pc = "select" /\ sends >= 2 /\ outstanding = 1 /\ cause # "none" /\ out.kind # "none"

(***************************************************************************)
(* C6.  Dual variant, under fairness of the loop and the timer: a cycle in *)
(* which nothing is delivered ends by the timer branch, which is taken     *)
(* only on an expiry and prints exactly one "unreachable" line; seqnum is  *)
(* untouched by that branch and advanced by exactly one in the sendEcho    *)
(* that follows.                                                           *)
(***************************************************************************)
C6_TimeoutCycle ==
    /\ (variant = "dual" /\ pc = "select")
          ~> (pc = "stop"
              \/ (pc = "reset" /\ cause = "timer" /\ out.kind = "unreachable"
                  /\ nprint = 1))
    /\ [][(variant = "dual" /\ pc = "select" /\ pc' = "reset")
            => (timerC = 1 /\ out'.kind = "unreachable" /\ nprint' = nprint + 1
                /\ p' = p)]_vars
    /\ [][(variant = "dual" /\ cause = "timer" /\ pc \in {"reset", "send"})
            => (p'.seqnum = IF SendsEcho THEN p.seqnum + 1 ELSE p.seqnum)]_vars

\* the request after a timed-out cycle is out, one sequence number further
C6_Witness ==
    /\ variant = "dual" /\ pc = "select" /\ cause = "timer" /\ res = NoRes
    /\ out.kind = "unreachable" /\ sends = 2 /\ outstanding = 1
    /\ p.seqnum = seq0 + 2

(***************************************************************************)
(* C7.  Asymmetric pacing, either variant: when the loop is about to send  *)
(* the next request, time.Sleep has run since the last request if and only *)
(* if the cycle ended in the receive branch; after the timer branch the    *)
(* request is sent with no sleep in between.                               *)
(***************************************************************************)
C7_AsymmetricPacing ==
    pc = "send" => (cause \in {"recv", "timer"} /\ (slept <=> cause = "recv"))

\* both cases in one run of the dual variant: the second request went out
\* unslept after a timeout (sends = 2, and the stopped receiver shows that the
\* first cycle was not a delivery), and the third is due after a delivery and
\* its sleep
C7_Witness ==
    /\ variant = "dual" /\ pc = "send" /\ sends = 2
    /\ cause = "recv" /\ slept /\ out.kind = "recvError" /\ rpc = "exited"

(***************************************************************************)
(* C8.  Dual variant: a delivered time-exceeded message prints the         *)
(* time-exceeded line with the current seqnum and ends the cycle: the      *)
(* timer is stopped, the sleep is taken, and the loop arrives at the next  *)
(* sendEcho, which uses seqnum + 1, so the wire sequence differs from the  *)
(* one reported.                                                           *)
(***************************************************************************)
C8_TimeExceededTerminal ==
    /\ [][(variant = "dual" /\ Delivered /\ rres.err = "nil"
           /\ rres.msg.type = "TimeExceeded")
            => (out' = [kind |-> "ttlExceeded", seq |-> p.seqnum, ttl |-> 0, time |-> 0]
                /\ pc' = "stop" /\ nprint' = nprint + 1 /\ p' = p)]_vars
    /\ [](variant = "dual" /\ out.kind = "ttlExceeded" =>
            /\ pc \in {"sleep", "reset"} => ~timerArmed
            /\ pc = "send" => slept)
    /\ (variant = "dual" /\ pc = "stop" /\ out.kind = "ttlExceeded")
          ~> (pc = "send" /\ slept /\ out.kind = "ttlExceeded")
    /\ [][(variant = "dual" /\ pc = "send" /\ out.kind = "ttlExceeded" /\ SendsEcho)
            => (/\ p'.seqnum = out.seq + 1
                /\ wire' # wire => (wire'.seq = Uint16(out.seq + 1)
                                    /\ wire'.seq # Uint16(out.seq)))]_vars

\* the probe after a time-exceeded cycle is on the wire
C8_Witness ==
    /\ variant = "dual" /\ pc = "select" /\ out.kind = "ttlExceeded"
    /\ cause = "recv" /\ sends >= 2 /\ outstanding = 1
    /\ wire.seq = Uint16(out.seq + 1)

(***************************************************************************)
(* C9.  Dual variant: a delivered message that is neither echo reply nor   *)
(* time-exceeded is reported as unexpected and is not terminal: the loop   *)
(* stays at the select for the same probe, no timer stop, no sleep, no     *)
(* request.                                                                *)
(* Stated as the claim has it; the program ends the cycle on every         *)
(* delivery.                                                               *)
(***************************************************************************)
C9_UnexpectedNotTerminal ==
    [][(variant = "dual" /\ Delivered /\ rres.err = "nil" /\ rres.msg.type = "Other")
         => (out'.kind = "unexpectedType" /\ pc' = "select"
             /\ timerArmed' = timerArmed /\ timerC' = timerC
             /\ slept' = slept /\ sends' = sends /\ p' = p)]_vars

(***************************************************************************)
(* C10.  Dual variant: a receive or parse error handed over by the         *)
(* receiver prints the receive-error line and ends the cycle; the loop     *)
(* then stops the timer, sleeps and arrives at the next sendEcho; pingLoop *)
(* leaves the loop only from a sendEcho that failed.                       *)
(***************************************************************************)
C10_RecvErrorNonFatal ==
    /\ [][(variant = "dual" /\ Delivered /\ rres.err \in {"read", "parse"})
            => (out'.kind = "recvError" /\ pc' = "stop" /\ nprint' = nprint + 1)]_vars
    /\ [][(variant = "dual" /\ pc' = "done" /\ pc # "done")
            => (pc = "send" /\ SendsEcho /\ wire' = wire)]_vars
    /\ [](variant = "dual" /\ out.kind = "recvError" /\ pc = "send" => slept)
    /\ (variant = "dual" /\ pc = "stop" /\ out.kind = "recvError")
          ~> (pc = "send" /\ slept /\ out.kind = "recvError")

\* the request after a receive-error cycle is on the wire
C10_Witness ==
    /\ variant = "dual" /\ pc = "select" /\ out.kind = "recvError"
    /\ cause = "recv" /\ rpc = "exited" /\ sends >= 2 /\ outstanding = 1

\* this step is a call of sendEcho whose WriteTo failed
SendFails == SendsEcho /\ outstanding' = outstanding

(***************************************************************************)
(* C11.  Every failed transmission of an echo request, the first one       *)
(* before the loop included, ends the control loop with no further         *)
(* request; and the loop ends on nothing but a failed transmission.        *)
(* Stated as the claim has it; the error of the sendEcho before the loop   *)
(* is dropped and the loop is entered all the same.                        *)
(***************************************************************************)
C11_SendFailureEndsLoop ==
    [][/\ SendFails => pc' = "done"
       /\ (pc' = "done" /\ pc # "done") => SendFails
       /\ pc \in {"done", "halt"} => ~SendsEcho]_vars

(***************************************************************************)
(* C12.  When pingLoop ends on a send failure it returns that error, so    *)
(* main prints it and the process exits with status 1.                     *)
(* Stated as the claim has it; pingLoop returns nil on every path, so main *)
(* never takes its error branch.                                           *)
(***************************************************************************)
C12_SendErrorReturned ==
    /\ pc = "done" => ret \notin {"none", "nil"}
    /\ pc = "halt" => status = "exit1"

\* pingLoop is inside its loop
LoopRuns == pc \in {"select", "stop", "sleep", "reset", "send"}

(***************************************************************************)
(* C13.  The receiver runs for the whole session: while the control loop   *)
(* runs it has not terminated, and after handing over any result (a        *)
(* message, a read error, a parse error) it reads the next datagram.       *)
(* Stated as the claim has it; recvEchoReply returns right after it has    *)
(* handed over a read or parse error.                                      *)
(***************************************************************************)
C13_ReceiverLivesOn ==
    [][/\ Delivered => rpc' = "read"
       /\ LoopRuns' => rpc' # "exited"]_vars

(***************************************************************************)
(* C14.  Dual variant, every read of the transport failing: once the first *)
(* failure has been reported, every cycle ends with the receive-error      *)
(* line, and none with "unreachable" (the only other line is the send      *)
(* error that ends the loop).                                              *)
(* Stated as the claim has it; after the first failure the receiver is     *)
(* gone (it made one read, which failed), and the cycles that follow end   *)
(* by timeout.  The line is read where the timer of the cycle is no longer *)
(* running, so that the timeout shown is that of the cycle's own timer.    *)
(***************************************************************************)
C14_PersistentFailureRepeats ==
    (variant = "dual" /\ rpc = "exited" /\ res = NoRes /\ pc = "reset"
     /\ ~timerArmed)
        => out.kind \in {"recvError", "sendError"}

(***************************************************************************)
(* C15.  Timestamp round trip, over the machine word of the model: for     *)
(* every time whose nanosecond count fits the word, bytesToTime of         *)
(* timeToBytes is that time; timeToBytes yields NumBytes bytes, most       *)
(* significant first: a count below one byte's range sits in the last      *)
(* byte with zeros before it, and a negative count sets the top bit of the *)
(* first byte.                                                             *)
(***************************************************************************)
C15_RoundTrip ==
    codec.stage = "decoded" =>
        LET n == UnixNano(codec.t)
            b == codec.bytes
        IN  /\ codec.back = codec.t
            /\ DOMAIN b = 1..NumBytes
            /\ \A i \in 1..NumBytes : b[i] \in 0..(Pow2(ByteBits) - 1)
            /\ (n >= 0 /\ n < Pow2(ByteBits)) =>
                   (b[NumBytes] = n /\ \A i \in 1..(NumBytes - 1) : b[i] = 0)
            /\ n < 0 <=> b[1] >= Pow2(ByteBits - 1)

\* a time before the epoch, more than one byte wide, has made the round trip
C15_Witness ==
    /\ codec.stage = "decoded" /\ codec.back = codec.t
    /\ codec.t.sec < 0 /\ codec.t.nsec > 0
    /\ codec.bytes[1] >= Pow2(ByteBits - 1) /\ codec.bytes[NumBytes] # 0

(***************************************************************************)
(* C16.  IPv4-only variant: no two consecutive echo requests carry the     *)
(* same sequence number; whichever way the cycle ended, the request the    *)
(* loop transmits carries the sequence of the request before it plus one.  *)
(* Stated as the claim has it; this variant increments seqnum in the timer *)
(* branch only, so after a delivery the same sequence goes out again.      *)
(***************************************************************************)
C16_V4FreshSequence ==
    [][(variant = "v4" /\ pc = "send" /\ SendsEcho /\ ~SendFails /\ wire # NoWire)
         => wire'.seq = Uint16(wire.seq + 1)]_vars

\* the receiver holds a result it has not handed over yet
Holding == rpc \in {"send", "sendret"}

(***************************************************************************)
(* C17.  No result is lost at a state boundary (either variant): the       *)
(* receiver holds a result exactly while it is blocked on the channel; the *)
(* result it holds changes only by being produced into the empty slot or   *)
(* by being handed over; whatever the loop or the timer do meanwhile       *)
(* (sleep, timer branch, expiry), the receiver keeps it and reads nothing; *)
(* and the hand-over gives the loop that very result, once.                *)
(***************************************************************************)
C17_NoResultLost ==
    /\ [](Holding <=> rres # NoRes)
    /\ [][/\ Delivered => (res' = rres /\ rres' = NoRes)
          /\ rres' # rres => (Delivered \/ (rpc = "read" /\ rres = NoRes /\ Holding'))
          /\ (Holding /\ ~Delivered) => (rpc' = rpc /\ rres' = rres)
          /\ res' # res => (Delivered \/ (pc = "sleep" /\ res' = NoRes))]_vars

\* during the sleep that follows one delivery the next result is already waiting
C17_Witness ==
    /\ pc = "sleep" /\ res # NoRes /\ cause = "recv"
    /\ rpc = "send" /\ IsEchoReply(rres) /\ rres # res

\* a step of the receiver goroutine, once pingLoop's go statement has started it
ReceiverStep == rpc # "unstarted" /\ (rpc' # rpc \/ rres' # rres)

C19_UnreachableOnlyOwnTimer ==
    [][(pc = "select" /\ pc' = "reset") => ~timerArmed]_vars

====
